---- MODULE Spec2Model ----
(***************************************************************************)
(* csvtool (src/csvtool/csvtool.py): the CSVTool class and its four        *)
(* commands, as a state machine over one or two invocations of the tool.   *)
(*                                                                         *)
(* Text is a sequence of one-character strings; a field is a text, a       *)
(* record a sequence of fields.  Python's None is the empty tuple and a    *)
(* list value h is the one-element tuple <<h>> (see None / Some).          *)
(***************************************************************************)
EXTENDS Integers, Sequences, FiniteSets, TLC

----------------------------------------------------------------------------
(* Characters and small text helpers                                       *)

COMMA == ","
DQUOTE == "\""
CR == "\r"
LF == "\n"
SPACE == " "
\* the end-of-line event csv.reader feeds its state machine after each line
EOL == "EOL"

None == <<>>
Some(x) == <<x>>
\* Python truthiness of an Optional[list]: None and [] are both false
Truthy(m) == m # None /\ Len(m[1]) > 0

Max(a, b) == IF a >= b THEN a ELSE b

RECURSIVE Concat(_)
\* ''.join(seq of texts)
Concat(ss) == IF ss = <<>> THEN <<>> ELSE Head(ss) \o Concat(Tail(ss))

RECURSIVE Join(_, _)
\* sep.join(parts)
Join(sep, parts) ==
    IF parts = <<>> THEN <<>>
    ELSE IF Len(parts) = 1 THEN parts[1]
    ELSE parts[1] \o sep \o Join(sep, Tail(parts))

\* c * n for a one-character text
Repeat(c, n) == [i \in 1..n |-> c]

\* str.ljust(width): pad with trailing spaces, never truncate
Ljust(s, width) == IF Len(s) >= width THEN s ELSE s \o Repeat(SPACE, width - Len(s))

Has(s, c) == \E i \in 1..Len(s) : s[i] = c

----------------------------------------------------------------------------
(* open(..., 'r') / sys.stdin: universal newlines on read                  *)

RECURSIVE Universal(_)
\* "\r\n" and a lone "\r" are both read as "\n"
Universal(t) ==
    IF t = <<>> THEN <<>>
    ELSE IF t[1] = CR
         THEN IF Len(t) >= 2 /\ t[2] = LF
              THEN <<LF>> \o Universal(SubSeq(t, 3, Len(t)))
              ELSE <<LF>> \o Universal(Tail(t))
         ELSE <<t[1]>> \o Universal(Tail(t))

----------------------------------------------------------------------------
(* csv.writer(delimiter=',', quotechar='"', quoting=QUOTE_MINIMAL)         *)

RECURSIVE DoubleQuotes(_)
\* doublequote=True: every quote character of the field is written twice
DoubleQuotes(s) ==
    IF s = <<>> THEN <<>>
    ELSE (IF s[1] = DQUOTE THEN <<DQUOTE, DQUOTE>> ELSE <<s[1]>>)
         \o DoubleQuotes(Tail(s))

\* QUOTE_MINIMAL: a field is quoted iff it holds the delimiter, the quote
\* character or a character of the line terminator "\r\n"
NeedsQuote(s) == Has(s, COMMA) \/ Has(s, DQUOTE) \/ Has(s, CR) \/ Has(s, LF)

WriteField(s) ==
    IF NeedsQuote(s) THEN <<DQUOTE>> \o DoubleQuotes(s) \o <<DQUOTE>> ELSE s

\* writer.writerow(row): a record of one empty field is written as ""
WriteRow(row) ==
    IF Len(row) = 1 /\ row[1] = <<>>
    THEN <<DQUOTE, DQUOTE, CR, LF>>
    ELSE Join(<<COMMA>>, [i \in 1..Len(row) |-> WriteField(row[i])]) \o <<CR, LF>>

----------------------------------------------------------------------------
(* csv.reader(StringIO(content), delimiter=',', quotechar='"')             *)
(* The reader's character state machine (non-strict dialect).  A parser    *)
(* state is [st, fld, flds, err].                                          *)

ParseReset == [st |-> "START_RECORD", fld |-> <<>>, flds |-> <<>>, err |-> FALSE]

SaveField(p) == [p EXCEPT !.flds = Append(p.flds, p.fld), !.fld = <<>>]

AfterNewline(c) == IF c = EOL THEN "START_RECORD" ELSE "EAT_CRNL"

StartField(p, c) ==
    IF c \in {LF, CR, EOL} THEN [SaveField(p) EXCEPT !.st = AfterNewline(c)]
    ELSE IF c = DQUOTE THEN [p EXCEPT !.st = "IN_QUOTED_FIELD"]
    ELSE IF c = COMMA THEN [SaveField(p) EXCEPT !.st = "START_FIELD"]
    ELSE [p EXCEPT !.fld = Append(p.fld, c), !.st = "IN_FIELD"]

ProcessChar(p, c) ==
    IF p.err THEN p
    ELSE CASE p.st = "START_RECORD" ->
                IF c = EOL THEN p
                ELSE IF c \in {LF, CR} THEN [p EXCEPT !.st = "EAT_CRNL"]
                ELSE StartField(p, c)
           [] p.st = "START_FIELD" -> StartField(p, c)
           [] p.st = "IN_FIELD" ->
                IF c \in {LF, CR, EOL} THEN [SaveField(p) EXCEPT !.st = AfterNewline(c)]
                ELSE IF c = COMMA THEN [SaveField(p) EXCEPT !.st = "START_FIELD"]
                ELSE [p EXCEPT !.fld = Append(p.fld, c)]
           [] p.st = "IN_QUOTED_FIELD" ->
                IF c = EOL THEN p
                ELSE IF c = DQUOTE THEN [p EXCEPT !.st = "QUOTE_IN_QUOTED_FIELD"]
                ELSE [p EXCEPT !.fld = Append(p.fld, c)]
           [] p.st = "QUOTE_IN_QUOTED_FIELD" ->
                IF c = DQUOTE
                THEN [p EXCEPT !.fld = Append(p.fld, c), !.st = "IN_QUOTED_FIELD"]
                ELSE IF c = COMMA THEN [SaveField(p) EXCEPT !.st = "START_FIELD"]
                ELSE IF c \in {LF, CR, EOL}
                THEN [SaveField(p) EXCEPT !.st = AfterNewline(c)]
                ELSE [p EXCEPT !.fld = Append(p.fld, c), !.st = "IN_FIELD"]
           [] p.st = "EAT_CRNL" ->
                IF c \in {LF, CR} THEN p
                ELSE IF c = EOL THEN [p EXCEPT !.st = "START_RECORD"]
                ELSE [p EXCEPT !.err = TRUE]

\* the end of one input line: the record is complete unless a quoted field
\* is still open
LineEnded(q, recs) ==
    IF q.err THEN [p |-> q, recs |-> recs, open |-> FALSE]
    ELSE IF q.st = "START_RECORD"
    THEN [p |-> ParseReset, recs |-> Append(recs, q.flds), open |-> FALSE]
    ELSE [p |-> q, recs |-> recs, open |-> TRUE]

EndLine(p, recs) == LineEnded(ProcessChar(p, EOL), recs)

RECURSIVE ReaderLoop(_, _, _, _, _, _)
RECURSIVE NextLine(_, _, _)
\* t: the text, i: next character, p: parser state, recs: records so far,
\* inLine: characters of an unterminated line were read, open: a record
\* spans the lines read so far
ReaderLoop(t, i, p, recs, inLine, open) ==
    IF p.err THEN [ok |-> FALSE, recs |-> <<>>]
    ELSE IF i > Len(t)
    THEN IF inLine THEN NextLine(t, i, EndLine(p, recs))
         ELSE IF open
         THEN [ok |-> TRUE, recs |-> Append(recs, SaveField(p).flds)]
         ELSE [ok |-> TRUE, recs |-> recs]
    ELSE IF t[i] = LF
    THEN NextLine(t, i + 1, EndLine(ProcessChar(p, t[i]), recs))
    ELSE ReaderLoop(t, i + 1, ProcessChar(p, t[i]), recs, TRUE, open)

\* go on after the end of a line, e being what EndLine returned
NextLine(t, i, e) == ReaderLoop(t, i, e.p, e.recs, FALSE, e.open)

\* list(csv.reader(StringIO(content))): [ok, recs]; ok is FALSE when the
\* reader raises csv.Error
CsvReader(content) == ReaderLoop(content, 1, ParseReset, <<>>, FALSE, FALSE)

----------------------------------------------------------------------------
(* str / list helpers used by the commands                                 *)

Digits == {"0", "1", "2", "3", "4", "5", "6", "7", "8", "9"}
Whitespace == {SPACE, "\t", LF, CR}

\* str.isdigit() on ASCII text: non-empty and every character a digit
IsDigit(s) == Len(s) > 0 /\ \A i \in 1..Len(s) : s[i] \in Digits

DigitVal(c) ==
    CASE c = "0" -> 0 [] c = "1" -> 1 [] c = "2" -> 2 [] c = "3" -> 3
      [] c = "4" -> 4 [] c = "5" -> 5 [] c = "6" -> 6 [] c = "7" -> 7
      [] c = "8" -> 8 [] c = "9" -> 9

RECURSIVE ParseInt(_)
\* int(s) for a digit-only text
ParseInt(s) ==
    IF s = <<>> THEN 0
    ELSE 10 * ParseInt(SubSeq(s, 1, Len(s) - 1)) + DigitVal(s[Len(s)])

RECURSIVE Strip(_)
\* str.strip()
Strip(s) ==
    IF s = <<>> THEN s
    ELSE IF s[1] \in Whitespace THEN Strip(Tail(s))
    ELSE IF s[Len(s)] \in Whitespace THEN Strip(SubSeq(s, 1, Len(s) - 1))
    ELSE s

RECURSIVE SplitFrom(_, _, _)
SplitFrom(s, i, cur) ==
    IF i > Len(s) THEN <<cur>>
    ELSE IF s[i] = COMMA THEN <<cur>> \o SplitFrom(s, i + 1, <<>>)
    ELSE SplitFrom(s, i + 1, Append(cur, s[i]))

\* columns.split(',')
Split(s) == SplitFrom(s, 1, <<>>)

\* list.index(x) as a 0-based index; -1 stands for ValueError
Index(lst, x) ==
    IF \E i \in 1..Len(lst) : lst[i] = x
    THEN (CHOOSE i \in 1..Len(lst) : lst[i] = x /\ \A j \in 1..(i - 1) : lst[j] # x) - 1
    ELSE -1

\* lst[i] raises IndexError (reached only behind the guard i < len(lst))
Raises(lst, i) == i < 0 - Len(lst)

\* lst[i] with Python's negative indices counted from the end
Item(lst, i) == IF i >= 0 THEN lst[i + 1] ELSE lst[Len(lst) + i + 1]

\* re.search(pattern, s) for the patterns of PatternArgs: an optional
\* leading ^, then literal characters and the wildcard "." (any character
\* but a line feed)
MatchAt(body, s, k) ==
    /\ k + Len(body) - 1 <= Len(s)
    /\ \A j \in 1..Len(body) :
          IF body[j] = "." THEN s[k + j - 1] # LF ELSE s[k + j - 1] = body[j]

ReSearch(pat, s) ==
    IF Len(pat) > 0 /\ pat[1] = "^"
    THEN MatchAt(Tail(pat), s, 1)
    ELSE \E k \in 1..(Len(s) + 1) : MatchAt(pat, s, k)

----------------------------------------------------------------------------
(* CSVTool.read_csv / CSVTool.write_csv                                    *)

\* the text read from input_source: a path or '-' is opened in text mode
\* (universal newlines); a file-like object is read as it is
ReadSource(kind, text) == IF kind = "path" THEN Universal(text) ELSE text

\* read_csv: [ok, headers, rows]; ok FALSE when csv.reader raises
SplitHeader(rd, has_header) ==
    IF ~rd.ok THEN [ok |-> FALSE, headers |-> None, rows |-> <<>>]
    ELSE IF has_header /\ rd.recs # <<>>
    THEN [ok |-> TRUE, headers |-> Some(rd.recs[1]), rows |-> Tail(rd.recs)]
    ELSE [ok |-> TRUE, headers |-> None, rows |-> rd.recs]

read_csv(kind, text, has_header) ==
    SplitHeader(CsvReader(ReadSource(kind, text)), has_header)

\* the header line write_csv emits: "if headers:" skips None and []
WriteHeader(hdrs) == IF Truthy(hdrs) THEN WriteRow(hdrs[1]) ELSE <<>>

\* write_csv: the text written to the output
write_csv(hdrs, rws) ==
    WriteHeader(hdrs) \o Concat([i \in 1..Len(rws) |-> WriteRow(rws[i])])

----------------------------------------------------------------------------
(* The outcome of one command: what it left on stdout and stderr, its exit *)
(* status, and the values of its locals headers, rows and col_indices.     *)

Outcome(p, h, r, ci, out, err, st) ==
    [pc |-> p, headers |-> h, rows |-> r, col_indices |-> ci,
     stdout |-> out, stderr |-> err, status |-> st]

\* an uncaught exception: a traceback on stderr, exit status 1, and nothing
\* written (every command writes only after its last raising statement)
Crash(h, r, ci) == Outcome("exit", h, r, ci, <<>>, "Traceback", 1)

\* print(..., file=sys.stderr); sys.exit(1)
Exit1(h, r, msg) == Outcome("exit", h, r, <<>>, <<>>, msg, 1)

\* print(text)
PrintLine(text) == text \o <<LF>>

----------------------------------------------------------------------------
(* CSVTool.readable                                                        *)

RECURSIVE MaxWidth(_, _, _, _)
\* the inner loop of the width computation: max_width starts at acc and
\* takes every row from k on that has a cell at col_idx (0-based)
MaxWidth(all_rows, col_idx, k, acc) ==
    IF k > Len(all_rows) THEN acc
    ELSE MaxWidth(all_rows, col_idx, k + 1,
                  IF col_idx < Len(all_rows[k])
                  THEN Max(acc, Len(all_rows[k][col_idx + 1]))
                  ELSE acc)

\* Widths with every column as wide as the longest cell of any column
WidthsGlobalMax(all_rows) ==
    [c \in 1..Len(all_rows[1]) |->
        CHOOSE w \in 0..64 :
            /\ \A k \in 1..Len(all_rows) : \A d \in 1..Len(all_rows[k]) :
                  Len(all_rows[k][d]) <= w
            /\ \/ w = 0
               \/ \E k \in 1..Len(all_rows) : \E d \in 1..Len(all_rows[k]) :
                     Len(all_rows[k][d]) = w]

\* widths: one entry per column of the first displayed record
Widths(all_rows) ==
    [c \in 1..Len(all_rows[1]) |-> MaxWidth(all_rows, c - 1, 1, 0)]

\* FormatRow without the ljust: every cell printed as it is
FormatRowNoPad(row, widths) == Join(<<SPACE, "|", SPACE>>, row)

\* ' | '.join(formatted_row)
FormatRow(row, widths) ==
    Join(<<SPACE, "|", SPACE>>,
         [c \in 1..Len(row) |->
            IF c - 1 < Len(widths) THEN Ljust(row[c], widths[c]) ELSE row[c]])

\* '-|-'.join('-' * width for width in widths)
Separator(widths) ==
    Join(<<"-", "|", "-">>, [c \in 1..Len(widths) |-> Repeat("-", widths[c])])

\* the records displayed: the header, when truthy and not suppressed, then
\* the rows
AllRows(hdrs, rws, nh) == (IF Truthy(hdrs) /\ ~nh THEN <<hdrs[1]>> ELSE <<>>) \o rws

\* the print loop over all_rows, widths being computed
PrintRows(all_rows, widths, hdrs, nh) ==
    Concat([k \in 1..Len(all_rows) |->
              PrintLine(FormatRow(all_rows[k], widths))
              \o (IF k = 1 /\ Truthy(hdrs) /\ ~nh
                  THEN PrintLine(Separator(widths)) ELSE <<>>)])

\* the text printed for all_rows
Render(all_rows, hdrs, nh) == PrintRows(all_rows, Widths(all_rows), hdrs, nh)

\* readable after read_csv returned r
Display(r, nh) ==
    IF ~r.ok THEN Crash(None, <<>>, <<>>)
    ELSE IF r.rows = <<>> /\ ~Truthy(r.headers)
    THEN Outcome("done", r.headers, r.rows, <<>>, <<>>, "", 0)
    ELSE IF AllRows(r.headers, r.rows, nh) = <<>>
    THEN Outcome("done", r.headers, r.rows, <<>>, <<>>, "", 0)
    ELSE Outcome("done", r.headers, r.rows, <<>>,
                 Render(AllRows(r.headers, r.rows, nh), r.headers, nh), "", 0)

readable(text, nh) == Display(read_csv("path", text, ~nh), nh)

----------------------------------------------------------------------------
(* Column references                                                       *)

RECURSIVE ResolveListNoOffset(_, _, _)
\* ResolveList with a digit-only reference taken as a 0-based index
ResolveListNoOffset(parts, hdrs, acc) ==
    IF parts = <<>> THEN [ok |-> TRUE, idx |-> acc]
    ELSE IF IsDigit(Strip(Head(parts)))
    THEN ResolveListNoOffset(Tail(parts), hdrs, Append(acc, ParseInt(Strip(Head(parts)))))
    ELSE IF Truthy(hdrs)
    THEN IF Index(hdrs[1], Strip(Head(parts))) >= 0
         THEN ResolveListNoOffset(Tail(parts), hdrs,
                                  Append(acc, Index(hdrs[1], Strip(Head(parts)))))
         ELSE [ok |-> FALSE, idx |-> acc]
    ELSE ResolveListNoOffset(Tail(parts), hdrs, acc)

RECURSIVE ResolveList(_, _, _)
\* select_columns' loop over columns.split(','): [ok, idx, bad].  A
\* digit-only reference is int(col) - 1; a name is looked up in a truthy
\* headers and exits when not found; a name with falsy headers adds nothing
ResolveList(parts, hdrs, acc) ==
    IF parts = <<>> THEN [ok |-> TRUE, idx |-> acc]
    ELSE LET col == Strip(Head(parts))
         IN  IF IsDigit(col)
             THEN ResolveList(Tail(parts), hdrs, Append(acc, ParseInt(col) - 1))
             ELSE IF Truthy(hdrs)
             THEN IF Index(hdrs[1], col) >= 0
                  THEN ResolveList(Tail(parts), hdrs, Append(acc, Index(hdrs[1], col)))
                  ELSE [ok |-> FALSE, idx |-> acc]
             ELSE ResolveList(Tail(parts), hdrs, acc)

\* ResolveOne with the header test made before the digit test
ResolveOneNeedsHeader(column, hdrs) ==
    IF ~Truthy(hdrs)
    THEN [ok |-> FALSE, idx |-> 0, msg |-> "Cannot use column name without headers"]
    ELSE IF IsDigit(column) THEN [ok |-> TRUE, idx |-> ParseInt(column) - 1, msg |-> ""]
    ELSE IF Index(hdrs[1], column) >= 0
    THEN [ok |-> TRUE, idx |-> Index(hdrs[1], column), msg |-> ""]
    ELSE [ok |-> FALSE, idx |-> 0, msg |-> "Column not found"]

\* search's and replace's column: [ok, idx, msg]
ResolveOne(column, hdrs) ==
    IF IsDigit(column) THEN [ok |-> TRUE, idx |-> ParseInt(column) - 1, msg |-> ""]
    ELSE IF Truthy(hdrs)
    THEN IF Index(hdrs[1], column) >= 0
         THEN [ok |-> TRUE, idx |-> Index(hdrs[1], column), msg |-> ""]
         ELSE [ok |-> FALSE, idx |-> 0, msg |-> "Column not found"]
    ELSE [ok |-> FALSE, idx |-> 0, msg |-> "Cannot use column name without headers"]

\* some row[i] behind the guard i < len(row) raises IndexError
AnyRaises(rws, idx) ==
    \E k \in 1..Len(rws) : \E j \in 1..Len(idx) :
        idx[j] < Len(rws[k]) /\ Raises(rws[k], idx[j])

\* [x[i] for i in idx if i < len(x)]
RECURSIVE Pick(_, _)
Pick(x, idx) ==
    IF idx = <<>> THEN <<>>
    ELSE (IF Head(idx) < Len(x) THEN <<Item(x, Head(idx))>> ELSE <<>>)
         \o Pick(x, Tail(idx))

----------------------------------------------------------------------------
(* CSVTool.select_columns                                                  *)

\* new_headers
SelectHeaders(hdrs, idx, nh) ==
    IF Truthy(hdrs) /\ ~nh THEN Some(Pick(hdrs[1], idx)) ELSE None

\* new_row: one field per index, '' where the row has no such field
SelectRow(row, idx) ==
    [j \in 1..Len(idx) |-> IF idx[j] < Len(row) THEN Item(row, idx[j]) ELSE <<>>]

\* select_columns after the column loop returned res
Project(r, res, nh) ==
    IF ~res.ok THEN Exit1(r.headers, r.rows, "Column not found")
    ELSE IF AnyRaises(r.rows, res.idx) THEN Crash(r.headers, r.rows, res.idx)
    ELSE Outcome("done", r.headers, r.rows, res.idx,
                 write_csv(SelectHeaders(r.headers, res.idx, nh),
                           [k \in 1..Len(r.rows) |-> SelectRow(r.rows[k], res.idx)]),
                 "", 0)

\* select_columns after read_csv returned r
SelectFrom(r, cols, nh) ==
    IF ~r.ok THEN Crash(None, <<>>, <<>>)
    ELSE Project(r, ResolveList(Split(cols), r.headers, <<>>), nh)

select_columns(text, cols, nh) == SelectFrom(read_csv("path", text, ~nh), cols, nh)

----------------------------------------------------------------------------
(* CSVTool.search                                                          *)

\* the filter's test of one row
Keeps(row, col_index, pat) ==
    col_index < Len(row) /\ ReSearch(pat, Item(row, col_index))

\* filtered_rows
Filter(rws, col_index, pat) == SelectSeq(rws, LAMBDA row : Keeps(row, col_index, pat))

\* search after its column was resolved to res
FilterBy(r, res, pat, nh) ==
    IF ~res.ok THEN Exit1(r.headers, r.rows, res.msg)
    ELSE IF AnyRaises(r.rows, <<res.idx>>) THEN Crash(r.headers, r.rows, <<res.idx>>)
    ELSE Outcome("done", r.headers, r.rows, <<res.idx>>,
                 write_csv(IF ~nh THEN r.headers ELSE None,
                           Filter(r.rows, res.idx, pat)),
                 "", 0)

\* search after read_csv returned r
SearchIn(r, column, pat, nh) ==
    IF ~r.ok THEN Crash(None, <<>>, <<>>)
    ELSE FilterBy(r, ResolveOne(column, r.headers), pat, nh)

search(text, column, pat, nh) == SearchIn(read_csv("path", text, ~nh), column, pat, nh)

----------------------------------------------------------------------------
(* CSVTool.replace                                                         *)

\* the position (1-based) that row[col_index] denotes
Slot(row, col_index) == IF col_index >= 0 THEN col_index + 1 ELSE Len(row) + col_index + 1

\* the row after "if str(row[col_index]) == old_value: row[col_index] = new_value"
ReplaceRow(row, col_index, old, new) ==
    IF col_index < Len(row) /\ Item(row, col_index) = old
    THEN [row EXCEPT ![Slot(row, col_index)] = new]
    ELSE row

\* replace after its column was resolved to res
ReplaceBy(r, res, old, new, nh) ==
    IF ~res.ok THEN Exit1(r.headers, r.rows, res.msg)
    ELSE IF AnyRaises(r.rows, <<res.idx>>) THEN Crash(r.headers, r.rows, <<res.idx>>)
    ELSE Outcome("done", r.headers, r.rows, <<res.idx>>,
                 write_csv(IF ~nh THEN r.headers ELSE None,
                           [k \in 1..Len(r.rows) |->
                              ReplaceRow(r.rows[k], res.idx, old, new)]),
                 "", 0)

\* replace after read_csv returned r
ReplaceIn(r, column, old, new, nh) ==
    IF ~r.ok THEN Crash(None, <<>>, <<>>)
    ELSE ReplaceBy(r, ResolveOne(column, r.headers), old, new, nh)

replace(text, column, old, new, nh) ==
    ReplaceIn(read_csv("path", text, ~nh), column, old, new, nh)

----------------------------------------------------------------------------
(* Inputs: the input texts and the command-line arguments explored         *)

\* the longest input, in records
MaxRecords == 3

RecordChoices ==
    { <<>>,                                        \* a blank line: zero fields
      << <<>> >>,                                  \* one empty field
      << <<"a">> >>,
      << <<"a">>, <<"a", "b">> >>,
      << <<"a", "b">>, <<"a">> >>,
      << <<"b">>, <<>>, <<"a">> >>,
      << <<COMMA>>, <<DQUOTE, "a", LF, "b">> >>,   \* fields that must be quoted
      << <<"a", CR>> >> }

\* the text of a sequence of records, one "\r\n"-terminated line each
TextOf(recs) == Concat([i \in 1..Len(recs) |-> WriteRow(recs[i])])

\* texts given as they are: the table of the readable example (a,bb / 1,22),
\* lines ended by "\n" with the last one unterminated, and a carriage
\* return inside an unquoted field
RawInputs ==
    { <<"a", COMMA, "b", "b", CR, LF, "1", COMMA, "2", "2", CR, LF>>,
      <<"a", COMMA, "b", LF, "a", "b">>,
      <<"a", CR, "b", LF>> }

Inputs ==
    { TextOf(recs) : recs \in UNION { [1..n -> RecordChoices] : n \in 0..MaxRecords } }
    \cup RawInputs

\* select's -c values
ColumnLists ==
    { <<"1">>, <<"2">>, <<"0">>, <<"3">>,
      <<"1", COMMA, "2">>, <<"2", COMMA, "1">>, <<"1", COMMA, "3">>,
      <<"a">>, <<"x">>, <<"a", "b", COMMA, "a">>, <<"a", COMMA, "2">>,
      <<"1", COMMA, SPACE, "x">> }

\* search's and replace's -c values
ColumnArgs == { <<"1">>, <<"2">>, <<"0">>, <<"3">>, <<"a">>, <<"x">> }

\* search's -s values
PatternArgs == { <<"a">>, <<"^", "a">>, <<"b">>, <<".">> }

\* replace's -o and -n values
OldArgs == { <<"a">>, <<"a", "b">> }
NewArgs == { <<"c">>, <<>> }

----------------------------------------------------------------------------
(* State                                                                   *)

VARIABLES
    content,      \* the text of the input source
    run,          \* 1: the first invocation, 2: one fed with the first's output
    pc,           \* "start", "read" (read_csv returned), "done", "exit"
    cmd,          \* "none", "readable", "select", "search", "replace", "api"
    no_header,    \* --no-header (for "api": not has_header)
    columns,      \* -c / --columns / --column
    pattern,      \* -s / --search
    old_value,    \* -o / --old
    new_value,    \* -n / --new
    headers,      \* read_csv's first result (None or Some(record))
    rows,         \* read_csv's second result
    col_indices,  \* the resolved 0-based indices
    stdout,       \* the text written to standard output
    stderr,       \* the message on standard error, "" when none
    status,       \* the exit status
    first         \* the first invocation's headers, rows and stdout

vars == <<content, run, pc, cmd, no_header, columns, pattern, old_value,
          new_value, headers, rows, col_indices, stdout, stderr, status, first>>

NoFirst == [headers |-> None, rows |-> <<>>, stdout |-> <<>>]

Init ==
    /\ content \in Inputs
    /\ run = 1
    /\ pc = "start"
    /\ cmd = "none"
    /\ no_header = FALSE
    /\ columns = <<>>
    /\ pattern = <<>>
    /\ old_value = <<>>
    /\ new_value = <<>>
    /\ headers = None
    /\ rows = <<>>
    /\ col_indices = <<>>
    /\ stdout = <<>>
    /\ stderr = ""
    /\ status = 0
    /\ first = NoFirst

\* the command line of the second invocation is that of the first
SameCommand(c, nh, cols) ==
    run = 1 \/ (cmd = c /\ no_header = nh /\ columns = cols)

Finish(o) ==
    /\ pc' = o.pc
    /\ headers' = o.headers
    /\ rows' = o.rows
    /\ col_indices' = o.col_indices
    /\ stdout' = o.stdout
    /\ stderr' = o.stderr
    /\ status' = o.status

\* read_csv returned r to its caller, or raised
Returned(r) ==
    IF r.ok THEN Outcome("read", r.headers, r.rows, <<>>, <<>>, "", 0)
    ELSE Crash(None, <<>>, <<>>)

\* csvtool [--no-header] readable
Readable ==
    \E nh \in BOOLEAN :
        /\ pc = "start" /\ run = 1
        /\ cmd' = "readable" /\ no_header' = nh
        /\ \E o \in {readable(content, nh)} : Finish(o)
        /\ UNCHANGED <<content, run, columns, pattern, old_value, new_value, first>>

\* csvtool [--no-header] select -c cols
SelectColumns ==
    \E nh \in BOOLEAN, cols \in ColumnLists :
        /\ pc = "start" /\ SameCommand("select", nh, cols)
        /\ cmd' = "select" /\ no_header' = nh /\ columns' = cols
        /\ \E o \in {select_columns(content, cols, nh)} : Finish(o)
        /\ UNCHANGED <<content, run, pattern, old_value, new_value, first>>

\* csvtool [--no-header] search -c col -s pat
Search ==
    \E nh \in BOOLEAN, col \in ColumnArgs, pat \in PatternArgs :
        /\ pc = "start" /\ run = 1
        /\ cmd' = "search" /\ no_header' = nh /\ columns' = col /\ pattern' = pat
        /\ \E o \in {search(content, col, pat, nh)} : Finish(o)
        /\ UNCHANGED <<content, run, old_value, new_value, first>>

\* csvtool [--no-header] replace -c col -o old -n new
Replace ==
    \E nh \in BOOLEAN, col \in ColumnArgs, old \in OldArgs, new \in NewArgs :
        /\ pc = "start" /\ run = 1
        /\ cmd' = "replace" /\ no_header' = nh /\ columns' = col
        /\ old_value' = old /\ new_value' = new
        /\ \E o \in {replace(content, col, old, new, nh)} : Finish(o)
        /\ UNCHANGED <<content, run, pattern, first>>

\* tool.read_csv(stream, has_header) called on a file-like object
ReadCsv ==
    \E hh \in BOOLEAN :
        /\ pc = "start" /\ SameCommand("api", ~hh, <<>>)
        /\ cmd' = "api" /\ no_header' = ~hh
        /\ \E o \in {Returned(read_csv("stream", content, hh))} : Finish(o)
        /\ UNCHANGED <<content, run, columns, pattern, old_value, new_value, first>>

\* tool.write_csv(headers, rows, output) with what read_csv returned
WriteCsv ==
    /\ pc = "read"
    /\ pc' = "done"
    /\ stdout' = write_csv(headers, rows)
    /\ UNCHANGED <<content, run, cmd, no_header, columns, pattern, old_value,
                   new_value, headers, rows, col_indices, stderr, status, first>>

\* the output of a finished first invocation becomes the input of a second
\* one with the same command line
Pipe ==
    /\ pc = "done" /\ run = 1 /\ cmd \in {"select", "api"}
    /\ content' = stdout
    /\ run' = 2
    /\ pc' = "start"
    /\ first' = [headers |-> headers, rows |-> rows, stdout |-> stdout]
    /\ headers' = None /\ rows' = <<>> /\ col_indices' = <<>>
    /\ stdout' = <<>> /\ stderr' = "" /\ status' = 0
    /\ UNCHANGED <<cmd, no_header, columns, pattern, old_value, new_value>>

Next ==
    \/ Readable
    \/ SelectColumns
    \/ Search
    \/ Replace
    \/ ReadCsv
    \/ WriteCsv
    \/ Pipe

Spec == Init /\ [][Next]_vars

----------------------------------------------------------------------------
(* Vocabulary of the properties                                            *)

\* the records standard output holds, read back as CSV
Emitted == CsvReader(stdout).recs

\* the column references of the command line, as the command reads them
Refs ==
    IF cmd = "select"
    THEN [j \in 1..Len(Split(columns)) |-> Strip(Split(columns)[j])]
    ELSE <<columns>>

Finished == pc \in {"done", "exit"}

\* a Header was parsed and --no-header does not suppress it
HeaderShown == headers # None /\ ~no_header

\* the Header as the first record of the output
HeaderRecord == IF HeaderShown THEN <<headers[1]>> ELSE <<>>

\* the row has a field at the 0-based index i
HasField(row, i) == 0 <= i /\ i < Len(row)

\* the name is a cell of the parsed Header
InHeader(name) == headers # None /\ \E i \in 1..Len(headers[1]) : headers[1][i] = name

\* the 0-based index of the first header cell equal to the name
FirstCell(name) ==
    (CHOOSE i \in 1..Len(headers[1]) :
        headers[1][i] = name /\ \A j \in 1..(i - 1) : headers[1][j] # name) - 1

----------------------------------------------------------------------------
(* C1: round trip.  Writing the RecordSet read_csv returned with write_csv *)
(* and reading the written text again with the same has_header flag gives  *)
(* the same Header (same presence, same fields) and the same rows.         *)

\* C1: after write_csv and a second read_csv with the same flag, the Header
\* and the rows are those the first read_csv returned
C1_RoundTrip ==
    (cmd = "api" /\ run = 2 /\ pc = "read")
        => (headers = first.headers /\ rows = first.rows)

----------------------------------------------------------------------------
(* C2: search with a reference resolving to a column n >= 1 or to a header *)
(* name emits the Header (when not suppressed) unchanged as the first      *)
(* record, then exactly the rows that have the field and whose field       *)
(* matches the pattern, unmodified and in input order.                     *)

\* the reference resolved, and to an index >= 0
ResolvedFrom1 == pc = "done" /\ Len(col_indices) = 1 /\ col_indices[1] >= 0

C2_Matches(row) ==
    HasField(row, col_indices[1]) /\ ReSearch(pattern, row[col_indices[1] + 1])

\* C2: the output of search is the Header record, when shown, then the
\* matching rows
C2_SearchFilters ==
    (cmd = "search" /\ ResolvedFrom1)
        => Emitted = HeaderRecord \o SelectSeq(rows, C2_Matches)

----------------------------------------------------------------------------
(* C3: replace with a reference resolving to a column n >= 1 or to a       *)
(* header name emits the Header unchanged and every row, in order, a row's *)
(* field at the index becoming the new value iff it exists and equals the  *)
(* old value, nothing else changing.                                       *)

C3_Row(row) ==
    IF HasField(row, col_indices[1]) /\ row[col_indices[1] + 1] = old_value
    THEN [row EXCEPT ![col_indices[1] + 1] = new_value]
    ELSE row

\* C3: the output of replace is the Header record, when shown, then every
\* row with only the matching field replaced
C3_ReplaceFrame ==
    (cmd = "replace" /\ ResolvedFrom1)
        => Emitted = HeaderRecord \o [k \in 1..Len(rows) |-> C3_Row(rows[k])]

----------------------------------------------------------------------------
(* C4: a select that does not abort emits, for a list of k references, the *)
(* header cells at the selected indices that lie within the Header (when   *)
(* the Header is present and not suppressed) and then one row per input    *)
(* row, in order, of exactly k fields: the input row's field at the j-th   *)
(* resolved index where the row has it, the empty string elsewhere.        *)

\* the 0-based index the j-th reference resolves to: n - 1 for the number
\* n, the first header cell equal to a name; -1, an index no record has a
\* field at, for a name that is no header cell
C4_Index(ref) ==
    IF IsDigit(ref) THEN ParseInt(ref) - 1
    ELSE IF InHeader(ref) THEN FirstCell(ref)
    ELSE -1

C4_Indices == [j \in 1..Len(Refs) |-> C4_Index(Refs[j])]

RECURSIVE C4_Cells(_)
C4_Cells(idx) ==
    IF idx = <<>> THEN <<>>
    ELSE (IF HasField(headers[1], Head(idx)) THEN <<headers[1][Head(idx) + 1]>> ELSE <<>>)
         \o C4_Cells(Tail(idx))

C4_Row(row) ==
    [j \in 1..Len(Refs) |->
        IF HasField(row, C4_Indices[j]) THEN row[C4_Indices[j] + 1] ELSE <<>>]

\* C4: the output of a select that did not abort is the projected Header,
\* when shown, then every row projected to exactly k fields
C4_SelectProjects ==
    (cmd = "select" /\ pc = "done")
        => Emitted = (IF HeaderShown THEN <<C4_Cells(C4_Indices)>> ELSE <<>>)
                     \o [k \in 1..Len(rows) |-> C4_Row(rows[k])]

----------------------------------------------------------------------------
(* C5: in select, search and replace alike, a reference that is not        *)
(* digit-only and names no cell of the Header (the Header absent, or       *)
(* present without the name) ends the command with a message on stderr, a  *)
(* non-zero exit status and no output; a name that resolves, resolves to   *)
(* the first header cell equal to it.                                      *)

C5_BadName(ref) == ~IsDigit(ref) /\ ~InHeader(ref)

\* C5: a name that is no header cell is fatal in select, search and replace;
\* a name that resolves, resolves to the first cell equal to it
C5_ResolutionFatal ==
    (cmd \in {"select", "search", "replace"} /\ Finished)
        => /\ (\E j \in 1..Len(Refs) : C5_BadName(Refs[j]))
                => (pc = "exit" /\ status # 0 /\ stderr # "" /\ stdout = <<>>)
           /\ pc = "done"
                => \A j \in 1..Len(Refs) :
                      ~IsDigit(Refs[j])
                          => (j <= Len(col_indices) /\ col_indices[j] = FirstCell(Refs[j]))

----------------------------------------------------------------------------
(* C9: a digit-only reference n >= 0 never fails to resolve, and in every  *)
(* row denotes the n-th field (1-based) when 1 <= n <= the row's length    *)
(* and a missing field otherwise: select emits the empty string for a      *)
(* missing field, search drops the row, replace leaves the row unchanged.  *)

\* the row's field that the digit-only reference denotes is there
C9_Has(row, ref) == 1 <= ParseInt(ref) /\ ParseInt(ref) <= Len(row)

C9_SelectRow(row) ==
    [j \in 1..Len(Refs) |-> IF C9_Has(row, Refs[j]) THEN row[ParseInt(Refs[j])] ELSE <<>>]

C9_SearchKeeps(row) ==
    C9_Has(row, Refs[1]) /\ ReSearch(pattern, row[ParseInt(Refs[1])])

C9_ReplaceRow(row) ==
    IF C9_Has(row, Refs[1]) /\ row[ParseInt(Refs[1])] = old_value
    THEN [row EXCEPT ![ParseInt(Refs[1])] = new_value]
    ELSE row

C9_Rows ==
    CASE cmd = "select" -> [k \in 1..Len(rows) |-> C9_SelectRow(rows[k])]
      [] cmd = "search" -> SelectSeq(rows, C9_SearchKeeps)
      [] cmd = "replace" -> [k \in 1..Len(rows) |-> C9_ReplaceRow(rows[k])]

\* the output is these rows, after at most a header record
C9_RowsEmitted(expected) ==
    \/ Emitted = expected
    \/ (Len(Emitted) = Len(expected) + 1 /\ Tail(Emitted) = expected)

\* C9: digit-only references never fail, and denote the n-th field or a
\* missing one
C9_NumericRefs ==
    (/\ cmd \in {"select", "search", "replace"}
     /\ Finished
     /\ \A j \in 1..Len(Refs) : IsDigit(Refs[j]))
        => (pc = "done" /\ status = 0 /\ stderr = "" /\ C9_RowsEmitted(C9_Rows))

----------------------------------------------------------------------------
(* C6: select idempotence.  As claimed: whenever every reference of the    *)
(* list denotes a column present in the first run's output, a second       *)
(* select with the same list and header mode on that output gives the same *)
(* Header and rows.                                                        *)

\* the records of the first run's output
FirstEmitted == CsvReader(first.stdout).recs

C6_Present(ref) ==
    IF IsDigit(ref)
    THEN /\ ParseInt(ref) >= 1
         /\ \A k \in 1..Len(FirstEmitted) : ParseInt(ref) <= Len(FirstEmitted[k])
    ELSE /\ ~no_header
         /\ FirstEmitted # <<>>
         /\ \E i \in 1..Len(FirstEmitted[1]) : FirstEmitted[1][i] = ref

\* C6, as claimed: a second select whose references all denote columns of
\* the first output gives the first output again
C6_SelectIdempotent ==
    (/\ cmd = "select" /\ run = 2 /\ Finished
     /\ \A j \in 1..Len(Refs) : C6_Present(Refs[j]))
        => (pc = "done" /\ Emitted = FirstEmitted)

\* every reference is a name, and a cell of the Header the first run parsed
C6_NamesOnly ==
    \A j \in 1..Len(Refs) :
        /\ ~IsDigit(Refs[j])
        /\ first.headers # None
        /\ \E i \in 1..Len(first.headers[1]) : first.headers[1][i] = Refs[j]

\* the list is 1,2,...,k
C6_Identity == \A j \in 1..Len(Refs) : IsDigit(Refs[j]) /\ ParseInt(Refs[j]) = j

\* C6, amended: the second run gives the first run's Header and rows when
\* the list holds only names found in the Header, or is the numeric list
\* 1,2,...,k
C6_IdempotentInPlace ==
    (cmd = "select" /\ run = 2 /\ Finished /\ (C6_NamesOnly \/ C6_Identity))
        => (pc = "done" /\ Emitted = FirstEmitted)

\* a second run of "select -c ab,a" on a table whose Header is a,ab and
\* that has a row: the names reorder the columns
C6_Witness ==
    /\ cmd = "select" /\ run = 2 /\ pc = "done"
    /\ columns = <<"a", "b", COMMA, "a">>
    /\ first.headers = Some(<< <<"a">>, <<"a", "b">> >>)
    /\ first.rows # <<>>

----------------------------------------------------------------------------
(* C7: empty input.  As claimed: whatever the command, the flag and the    *)
(* column reference, input with zero records is parsed to an absent Header *)
(* and no rows, nothing is emitted, and the command ends normally.         *)

C7_Quiet ==
    /\ headers = None /\ rows = <<>>
    /\ stdout = <<>> /\ stderr = ""
    /\ pc = "done" /\ status = 0

\* C7, as claimed: on empty input every command ends normally with no
\* output, whatever its column reference
C7_EmptyInput ==
    (content = <<>> /\ cmd \in {"readable", "select", "search", "replace"} /\ Finished)
        => C7_Quiet

\* C7, amended: so it is for readable and for every digit-only reference;
\* search and replace given a column name end with a message on stderr, a
\* non-zero status and no output
C7_EmptyInputNumeric ==
    (content = <<>> /\ Finished)
        => /\ (cmd = "readable"
                 \/ (/\ cmd \in {"select", "search", "replace"}
                     /\ \A j \in 1..Len(Refs) : IsDigit(Refs[j])))
                => C7_Quiet
           /\ (cmd \in {"search", "replace"} /\ ~IsDigit(columns))
                => (pc = "exit" /\ status # 0 /\ stderr # "" /\ stdout = <<>>)

C7_Witness ==
    content = <<>> /\ cmd = "search" /\ pc = "done" /\ columns = <<"1">>

----------------------------------------------------------------------------
(* C8: the readable example, Header a,bb and the row 1,22.  As claimed:    *)
(* the lines are 'a  | bb', '---|---', '1  | 22' (widths 2 and 2).         *)

C8_Input == <<"a", COMMA, "b", "b", CR, LF, "1", COMMA, "2", "2", CR, LF>>

C8_Shown == content = C8_Input /\ cmd = "readable" /\ ~no_header /\ pc = "done"

\* C8, as claimed: the example prints 'a  | bb', '---|---', '1  | 22'
C8_ExampleWidths2And2 ==
    C8_Shown
        => stdout = <<"a", SPACE, SPACE, "|", SPACE, "b", "b", LF,
                      "-", "-", "-", "|", "-", "-", "-", LF,
                      "1", SPACE, SPACE, "|", SPACE, "2", "2", LF>>

\* C8, amended: the lines are 'a | bb', '--|---', '1 | 22': the widths are
\* 1 and 2, each column as wide as its own longest cell
C8_ExampleWidths1And2 ==
    C8_Shown
        => stdout = <<"a", SPACE, "|", SPACE, "b", "b", LF,
                      "-", "-", "|", "-", "-", "-", LF,
                      "1", SPACE, "|", SPACE, "2", "2", LF>>

C8_Witness == C8_Shown /\ Len(rows) = 1 /\ headers # None

----------------------------------------------------------------------------
(* C10: readable's layout.  With D the records displayed (the Header, when *)
(* it is displayed, then the rows) and W the field count of D[1]: column   *)
(* c <= W is as wide as the longest cell any record of D has at c; one     *)
(* line per record, in order, cells c <= W left-justified to the width,    *)
(* later cells as they are, joined by ' | '; the separator (runs of        *)
(* dashes joined by '-|-') exactly once, right after the first line, iff   *)
(* the Header is displayed; so the separator is as long as every line of   *)
(* exactly W fields.  A line is the text of one print call.                *)

\* the Header is displayed: it has a field and is not suppressed
C10_HeaderDisplayed == headers # None /\ headers[1] # <<>> /\ ~no_header

C10_D == (IF C10_HeaderDisplayed THEN <<headers[1]>> ELSE <<>>) \o rows

C10_W == Len(C10_D[1])

C10_Width(c) ==
    LET lens == { Len(C10_D[k][c]) : k \in { i \in 1..Len(C10_D) : Len(C10_D[i]) >= c } }
    IN  CHOOSE w \in lens : \A v \in lens : v <= w

C10_Cell(k, c) ==
    IF c <= C10_W
    THEN [i \in 1..C10_Width(c) |-> IF i <= Len(C10_D[k][c]) THEN C10_D[k][c][i] ELSE SPACE]
    ELSE C10_D[k][c]

C10_Line(k) == Join(<<SPACE, "|", SPACE>>, [c \in 1..Len(C10_D[k]) |-> C10_Cell(k, c)])

C10_Separator ==
    Join(<<"-", "|", "-">>, [c \in 1..C10_W |-> [i \in 1..C10_Width(c) |-> "-"]])

C10_Text ==
    Concat([k \in 1..Len(C10_D) |->
              C10_Line(k) \o <<LF>>
              \o (IF k = 1 /\ C10_HeaderDisplayed THEN C10_Separator \o <<LF>> ELSE <<>>)])

====
